---- MODULE Spec2Model ----
(***************************************************************************)
(* A model of the pyhub SDK: the provider factory (pyhub/sdk/api.py), the  *)
(* generic client (pyhub/sdk/base/client.py) and the HeroSMS and SMSBower  *)
(* overrides.  Texts (provider names, URLs, vendor responses, JSON keys)   *)
(* are sequences of one-character strings, so that lower(), replace(),     *)
(* strip(), rstrip(), split(), startswith(), the substring test and        *)
(* float()/int() are computed the way Python computes them.                *)
(***************************************************************************)
EXTENDS Integers, Sequences, FiniteSets, TLC

VARIABLES client, op, args, calls, result

vars == <<client, op, args, calls, result>>

(***************************************************************************)
(* Bounds of the model.                                                    *)
(***************************************************************************)
MaxNameParts == 2
MaxUrlParts == 2
\* the most colon-separated fields of a vendor's text response
MaxFields == 3
\* the most prices (or providers) of one price map
MaxPrices == 3
\* the most entries of one getTopCountriesByService entry list
MaxEntries == 2

(***************************************************************************)
(* Python str helpers.                                                     *)
(***************************************************************************)
\* str.lower() on one character
LowerChar(c) ==
    LET upper == <<"A","B","C","D","E","F","G","H","I","J","K","L","M",
                   "N","O","P","Q","R","S","T","U","V","W","X","Y","Z">>
        lower == <<"a","b","c","d","e","f","g","h","i","j","k","l","m",
                   "n","o","p","q","r","s","t","u","v","w","x","y","z">>
    IN  IF \E i \in 1..Len(upper) : upper[i] = c
        THEN lower[CHOOSE i \in 1..Len(upper) : upper[i] = c]
        ELSE c

\* str.lower()
Lower(s) == [i \in 1..Len(s) |-> LowerChar(s[i])]

\* str.replace(c, "") for a one-character c
RemoveChar(s, c) == SelectSeq(s, LAMBDA x : x # c)

\* str.lstrip() / str.rstrip() / str.strip() with the default whitespace set
RECURSIVE LStrip(_)
LStrip(s) == IF s # <<>> /\ Head(s) \in {" ", "\t", "\n"} THEN LStrip(Tail(s)) ELSE s

RECURSIVE RStrip(_)
RStrip(s) ==
    IF s # <<>> /\ s[Len(s)] \in {" ", "\t", "\n"} THEN RStrip(SubSeq(s, 1, Len(s) - 1)) ELSE s

Strip(s) == RStrip(LStrip(s))

\* str.rstrip(c) for a one-character c
RECURSIVE RStripChar(_, _)
RStripChar(s, c) ==
    IF s # <<>> /\ s[Len(s)] = c
    THEN RStripChar(SubSeq(s, 1, Len(s) - 1), c)
    ELSE s

\* "sub in s"
Contains(s, sub) ==
    \E i \in 1..(Len(s) - Len(sub) + 1) : SubSeq(s, i, i + Len(sub) - 1) = sub

\* s.startswith(prefix)
StartsWith(s, prefix) ==
    Len(s) >= Len(prefix) /\ SubSeq(s, 1, Len(prefix)) = prefix

\* s[:n]
Prefix(s, n) == SubSeq(s, 1, IF Len(s) < n THEN Len(s) ELSE n)

\* Concatenation of a sequence of texts
RECURSIVE Concat(_)
Concat(parts) == IF parts = <<>> THEN <<>> ELSE Head(parts) \o Concat(Tail(parts))

\* All sequences over S of length 0..n
SeqsUpTo(S, n) == UNION {[1..k -> S] : k \in 0..n}

(***************************************************************************)
(* Optional values: None, or Some(v).                                      *)
(***************************************************************************)
None == [some |-> FALSE, v |-> <<>>]
Some(x) == [some |-> TRUE, v |-> x]

\* Python truthiness of an Optional[str]: None and "" are falsy
Truthy(o) == o.some /\ o.v # <<>>

(***************************************************************************)
(* pyhub/sdk/api.py: the provider registry.                                *)
(***************************************************************************)
SMSHUB == <<"s","m","s","h","u","b">>
HEROSMS == <<"h","e","r","o","s","m","s">>
SMSACTIVATE == <<"s","m","s","a","c","t","i","v","a","t","e">>
SMSBOWER == <<"s","m","s","b","o","w","e","r">>
HERO == <<"h","e","r","o">>
BOWER == <<"b","o","w","e","r">>

\* PyHub._providers, in insertion order: key, client class
providers ==
    << [key |-> SMSHUB,      class |-> "SMSHubClient"],
       [key |-> HEROSMS,     class |-> "HeroSMSClient"],
       [key |-> SMSACTIVATE, class |-> "SMSActivateClient"],
       [key |-> SMSBOWER,    class |-> "SMSBowerClient"],
       [key |-> HERO,        class |-> "HeroSMSClient"],
       [key |-> BOWER,       class |-> "SMSBowerClient"] >>

\* PyHub._url_patterns, in insertion order: pattern, provider key
url_patterns ==
    << [pattern |-> <<"s","m","s","h","u","b",".","o","r","g">>,         key |-> SMSHUB],
       [pattern |-> <<"h","e","r","o","-","s","m","s",".","c","o","m">>, key |-> HEROSMS],
       [pattern |-> <<"s","m","s","-","a","c","t","i","v","a","t","e">>, key |-> SMSACTIVATE],
       [pattern |-> <<"s","m","s","b","o","w","e","r">>,                 key |-> SMSBOWER] >>

\* The default base_url of each client class (the __init__ defaults)
DefaultBaseUrl(class) ==
    CASE class = "SMSHubClient" ->
           <<"h","t","t","p","s",":","/","/","s","m","s","h","u","b",".","o","r","g",
             "/","s","t","u","b","s","/","h","a","n","d","l","e","r","_","a","p","i",
             ".","p","h","p">>
      [] class = "HeroSMSClient" ->
           <<"h","t","t","p","s",":","/","/","h","e","r","o","-","s","m","s",".","c",
             "o","m","/","s","t","u","b","s","/","h","a","n","d","l","e","r","_","a",
             "p","i",".","p","h","p">>
      [] class = "SMSActivateClient" ->
           <<"h","t","t","p","s",":","/","/","a","p","i",".","s","m","s","-","a","c",
             "t","i","v","a","t","e",".","a","e","/","s","t","u","b","s","/","h","a",
             "n","d","l","e","r","_","a","p","i",".","p","h","p">>
      [] class = "SMSBowerClient" ->
           <<"h","t","t","p","s",":","/","/","s","m","s","b","o","w","e","r",".","p",
             "a","g","e","/","s","t","u","b","s","/","h","a","n","d","l","e","r","_",
             "a","p","i",".","p","h","p">>

ClientClasses == {"SMSHubClient", "HeroSMSClient", "SMSActivateClient", "SMSBowerClient"}

\* ClientBase.__init__: the endpoint a client keeps
ClientBase_init(class, base_url) ==
    [class |-> class, base_url |-> RStripChar(base_url, "/")]

NoClient == [class |-> "none", base_url |-> <<>>]

\* provider.lower().replace("-", "").replace("_", "").strip()
NormalizeName(name) == Strip(RemoveChar(RemoveChar(Lower(name), "-"), "_"))

\* DetectByUrl without the .lower() of the URL
DetectByUrl_NoLower(base_url) ==
    LET hits == {i \in 1..Len(url_patterns) : Contains(base_url, url_patterns[i].pattern)}
    IN  IF hits # {}
        THEN url_patterns[CHOOSE i \in hits : \A j \in hits : i <= j].key
        ELSE SMSHUB

\* The for/else over _url_patterns: the key of the first pattern found in the
\* lowercased URL, "smshub" when the loop ends without a break
DetectByUrl(base_url) ==
    LET url_lower == Lower(base_url)
        hits == {i \in 1..Len(url_patterns) : Contains(url_lower, url_patterns[i].pattern)}
    IN  IF hits # {}
        THEN url_patterns[CHOOSE i \in hits : \A j \in hits : i <= j].key
        ELSE SMSHUB

\* step 1 of get_client: provider_key (None when neither argument is truthy)
ProviderKey(provider, base_url) ==
    IF Truthy(provider) THEN Some(NormalizeName(provider.v))
    ELSE IF Truthy(base_url) THEN Some(DetectByUrl(base_url.v))
    ELSE None

\* cls._providers.get(provider_key)
ProviderClass(key) ==
    IF \E i \in 1..Len(providers) : providers[i].key = key
    THEN (providers[CHOOSE i \in 1..Len(providers) : providers[i].key = key]).class
    ELSE "none"

ProviderKeys == [i \in 1..Len(providers) |-> providers[i].key]

\* get_client falling back to the SMSHub client when nothing identifies a provider
get_client_FallsBack(provider, base_url) ==
    LET provider_key == ProviderKey(provider, base_url)
        client_class == ProviderClass(provider_key.v)
    IN  IF ~Truthy(provider_key) \/ client_class = "none"
        THEN [kind |-> "ok", listed |-> <<>>,
              client |-> ClientBase_init("SMSHubClient", DefaultBaseUrl("SMSHubClient"))]
        ELSE [kind |-> "ok", listed |-> <<>>,
              client |-> ClientBase_init(client_class,
                                         IF Truthy(base_url) THEN base_url.v
                                         ELSE DefaultBaseUrl(client_class))]

\* PyHub.get_client(api_key, provider, base_url): the error raised or the
\* client returned
get_client(provider, base_url) ==
    LET provider_key == ProviderKey(provider, base_url)
        client_class == ProviderClass(provider_key.v)
    IN  IF ~Truthy(provider_key)
        THEN [kind |-> "MissingProviderError", listed |-> <<>>, client |-> NoClient]
        ELSE IF client_class = "none"
        THEN [kind |-> "UnknownProviderError", listed |-> ProviderKeys, client |-> NoClient]
        ELSE [kind |-> "ok", listed |-> <<>>,
              client |-> ClientBase_init(client_class,
                                         IF Truthy(base_url) THEN base_url.v
                                         ELSE DefaultBaseUrl(client_class))]

(***************************************************************************)
(* More str helpers: split, join, float().                                 *)
(***************************************************************************)
\* s.split(sep) for a one-character sep: every separator splits
RECURSIVE Split(_, _)
Split(s, sep) ==
    IF \E i \in 1..Len(s) : s[i] = sep
    THEN LET i == CHOOSE k \in 1..Len(s) : s[k] = sep /\ \A j \in 1..(k - 1) : s[j] # sep
         IN  <<SubSeq(s, 1, i - 1)>> \o Split(SubSeq(s, i + 1, Len(s)), sep)
    ELSE <<s>>

\* s.split(sep, 1): only the first separator splits
SplitFirst(s, sep) ==
    IF \E i \in 1..Len(s) : s[i] = sep
    THEN LET i == CHOOSE k \in 1..Len(s) : s[k] = sep /\ \A j \in 1..(k - 1) : s[j] # sep
         IN  <<SubSeq(s, 1, i - 1), SubSeq(s, i + 1, Len(s))>>
    ELSE <<s>>

\* sep.join(fields)
RECURSIVE Join(_, _)
Join(fields, sep) ==
    IF fields = <<>> THEN <<>>
    ELSE IF Len(fields) = 1 THEN fields[1]
    ELSE fields[1] \o <<sep>> \o Join(Tail(fields), sep)

DigitChars == <<"0","1","2","3","4","5","6","7","8","9">>
IsDigit(c) == \E i \in 1..Len(DigitChars) : DigitChars[i] = c

RECURSIVE DigitsVal(_)
DigitsVal(ds) ==
    IF ds = <<>> THEN 0
    ELSE 10 * DigitsVal(SubSeq(ds, 1, Len(ds) - 1))
         + (CHOOSE i \in 1..Len(DigitChars) : DigitChars[i] = ds[Len(ds)]) - 1

RECURSIVE Pow10(_)
Pow10(n) == IF n = 0 THEN 1 ELSE 10 * Pow10(n - 1)

\* A decimal number m / 10^e, kept in lowest terms so that equal numbers are
\* equal records
RECURSIVE Dec(_, _)
Dec(m, e) ==
    IF m = 0 THEN [m |-> 0, e |-> 0]
    ELSE IF e > 0 /\ m % 10 = 0 THEN Dec(m \div 10, e - 1)
    ELSE [m |-> m, e |-> e]

Zero == Dec(0, 0)

\* float("nan"): the one float that is no decimal number
NaN == [m |-> 0, e |-> -1]
IsNaN(d) == d.e < 0

\* a < b of two floats; False with a NaN on either side
NumLess(a, b) == ~IsNaN(a) /\ ~IsNaN(b) /\ a.m * Pow10(b.e) < b.m * Pow10(a.e)

\* float(s) of a text: surrounding whitespace is dropped, then an optional
\* sign, then digits and at most one ".", or "nan" in any case; anything
\* else raises ValueError.  (Exponents, "inf" and digit-group underscores do
\* not occur in the texts of this model.)
NAN == <<"n","a","n">>

Unsigned(t) == IF t # <<>> /\ t[1] \in {"+", "-"} THEN Tail(t) ELSE t

IsDecimalText(u) ==
    /\ \A i \in 1..Len(u) : IsDigit(u[i]) \/ u[i] = "."
    /\ Cardinality({i \in 1..Len(u) : u[i] = "."}) <= 1
    /\ \E i \in 1..Len(u) : IsDigit(u[i])

IsFloatText(s) == IsDecimalText(Unsigned(Strip(s))) \/ Lower(Unsigned(Strip(s))) = NAN

DecimalOfText(neg, parts) ==
    Dec((IF neg THEN -1 ELSE 1)
            * DigitsVal(parts[1] \o (IF Len(parts) > 1 THEN parts[2] ELSE <<>>)),
        IF Len(parts) > 1 THEN Len(parts[2]) ELSE 0)

FloatOfText(s) ==
    IF Lower(Unsigned(Strip(s))) = NAN THEN NaN
    ELSE DecimalOfText(Strip(s)[1] = "-", Split(Unsigned(Strip(s)), "."))

(***************************************************************************)
(* pyhub/sdk/base/client.py: the transport.                                *)
(***************************************************************************)
NoneInt == [some |-> FALSE, v |-> 0]
NoneBool == [some |-> FALSE, v |-> FALSE]

\* The query parameters a caller may add to api_key and action
NoParams ==
    [service |-> None, country |-> NoneInt, operator |-> None, id |-> None,
     status |-> NoneInt, activationId |-> None, freePrice |-> NoneBool]

\* The vendor error tokens of _request, in the order they are tested
errors ==
    << <<"B","A","D","_","K","E","Y">>,
       <<"E","R","R","O","R","_","S","Q","L">>,
       <<"B","A","D","_","A","C","T","I","O","N">>,
       <<"W","R","O","N","G","_","A","C","T","I","V","A","T","I","O","N","_","I","D">>,
       <<"N","O","_","K","E","Y">>,
       <<"B","A","N","N","E","D">> >>

\* _request comparing the whole body with each token instead of searching it
Request_ExactMatch(c, action, params, resp) ==
    LET call == [action |-> action, params |-> params, url |-> c.base_url, resp |-> resp]
    IN  IF resp.http # "2xx"
        THEN [call |-> call, kind |-> "TransportError", text |-> <<>>]
        ELSE IF \E i \in 1..Len(errors) : resp.text = errors[i]
        THEN [call |-> call, kind |-> "VendorError", text |-> resp.text]
        ELSE [call |-> call, kind |-> "ok", text |-> resp.text]

\* ClientBase._request(action, params) when the vendor answers resp, an HTTP
\* outcome and a body: the call issued and the text returned or the error
\* raised.  raise_for_status() comes before the body is read.
Request(c, action, params, resp) ==
    LET call == [action |-> action, params |-> params, url |-> c.base_url, resp |-> resp]
    IN  IF resp.http # "2xx"
        THEN [call |-> call, kind |-> "TransportError", text |-> <<>>]
        ELSE IF \E i \in 1..Len(errors) : Contains(resp.text, errors[i])
        THEN [call |-> call, kind |-> "VendorError", text |-> resp.text]
        ELSE [call |-> call, kind |-> "ok", text |-> resp.text]

\* An exception of kind k, carrying text
Raise(k, text) == [kind |-> k, text |-> text]

(***************************************************************************)
(* pyhub/sdk/base/client.py: the colon-delimited operations.  Each takes   *)
(* the client, its arguments and resps, the vendor's answers to the        *)
(* transport calls it issues, and gives the calls issued and the outcome.  *)
(***************************************************************************)
ACCESS_NUMBER == <<"A","C","C","E","S","S","_","N","U","M","B","E","R">>
STATUS_OK == <<"S","T","A","T","U","S","_","O","K">>
REACTIVATION == <<"r","e","a","c","t","i","v","a","t","i","o","n">>

get_balance(c, resps) ==
    LET r == Request(c, "getBalance", NoParams, resps[1])
    IN  [calls |-> <<r.call>>,
         result |->
            IF r.kind # "ok" THEN Raise(r.kind, r.text)
            ELSE IF \E i \in 1..Len(r.text) : r.text[i] = ":"
            THEN LET tail == Split(r.text, ":")[2]
                 IN  IF IsFloatText(tail)
                     THEN [kind |-> "ok", amount |-> FloatOfText(tail)]
                     ELSE Raise("ParseError", tail)
            ELSE Raise("ParseError", r.text)]

\* NumberParams testing "country" for truth: country 0 counts as no country
NumberParams_TruthyCountry(service, country, operator) ==
    [NoParams EXCEPT
        !.service = Some(service),
        !.country = country,
        !.operator = IF Truthy(operator)
                     THEN (IF country.some /\ country.v # 0 /\ country.v # 73
                           THEN Some(<<"a","n","y">>) ELSE operator)
                     ELSE None]

\* The params of getNumber
NumberParams(service, country, operator) ==
    [NoParams EXCEPT
        !.service = Some(service),
        !.country = country,
        !.operator = IF Truthy(operator)
                     THEN (IF country.some /\ country.v # 73
                           THEN Some(<<"a","n","y">>) ELSE operator)
                     ELSE None]

\* The parse shared by get_number and reactivation_number: parts[1] and
\* parts[2] of the split text, IndexError when one of them is missing
ParseNumber(text) ==
    LET parts == Split(text, ":")
    IN  IF Len(parts) < 3 THEN Raise("IndexError", text)
        ELSE [kind |-> "ok", activation_id |-> parts[2], phone_number |-> parts[3]]

get_number(c, service, country, operator, resps) ==
    LET r == Request(c, "getNumber", NumberParams(service, country, operator), resps[1])
    IN  [calls |-> <<r.call>>,
         result |->
            IF r.kind # "ok" THEN Raise(r.kind, r.text)
            ELSE IF StartsWith(r.text, ACCESS_NUMBER)
            THEN LET n == ParseNumber(r.text)
                 IN  IF n.kind # "ok" THEN n
                     ELSE [kind |-> "ok", activation_id |-> n.activation_id,
                           phone_number |-> n.phone_number, service |-> service]
            ELSE Raise("ParseError", r.text)]

set_status(c, activation_id, status, resps) ==
    LET r == Request(c, "setStatus",
                     [NoParams EXCEPT !.id = Some(activation_id),
                                      !.status = [some |-> TRUE, v |-> status]],
                     resps[1])
    IN  [calls |-> <<r.call>>,
         result |-> IF r.kind # "ok" THEN Raise(r.kind, r.text)
                    ELSE [kind |-> "ok", text |-> r.text]]

\* active_status never reaching the vendor
active_status_Skipped(c, activation_id, resps) ==
    [calls |-> <<>>, result |-> [kind |-> "ok", text |-> <<>>]]

active_status(c, activation_id, resps) == set_status(c, activation_id, 1, resps)

\* reactivation_number swallowing the failure of active_status: the
\* NumberActivation is returned whatever setStatus answered
reactivation_number_IgnoresStatus(c, activation_id, resps) ==
    LET r == Request(c, "getExtraActivation",
                     [NoParams EXCEPT !.activationId = Some(activation_id)], resps[1])
    IN  IF r.kind # "ok" THEN [calls |-> <<r.call>>, result |-> Raise(r.kind, r.text)]
        ELSE IF StartsWith(r.text, ACCESS_NUMBER)
        THEN LET n == ParseNumber(r.text)
             IN  IF n.kind # "ok" THEN [calls |-> <<r.call>>, result |-> n]
                 ELSE [calls |-> <<r.call>> \o active_status(c, n.activation_id,
                                                            Tail(resps)).calls,
                       result |-> [kind |-> "ok", activation_id |-> n.activation_id,
                                   phone_number |-> n.phone_number,
                                   service |-> REACTIVATION]]
        ELSE [calls |-> <<r.call>>, result |-> Raise("ParseError", r.text)]

reactivation_number(c, activation_id, resps) ==
    LET r == Request(c, "getExtraActivation",
                     [NoParams EXCEPT !.activationId = Some(activation_id)], resps[1])
    IN  IF r.kind # "ok" THEN [calls |-> <<r.call>>, result |-> Raise(r.kind, r.text)]
        ELSE IF StartsWith(r.text, ACCESS_NUMBER)
        THEN LET n == ParseNumber(r.text)
             IN  IF n.kind # "ok" THEN [calls |-> <<r.call>>, result |-> n]
                 ELSE LET a == active_status(c, n.activation_id, Tail(resps))
                      IN  [calls |-> <<r.call>> \o a.calls,
                           result |->
                              IF a.result.kind # "ok" THEN a.result
                              ELSE [kind |-> "ok", activation_id |-> n.activation_id,
                                    phone_number |-> n.phone_number,
                                    service |-> REACTIVATION]]
        ELSE [calls |-> <<r.call>>, result |-> Raise("ParseError", r.text)]

get_status(c, activation_id, resps) ==
    LET r == Request(c, "getStatus", [NoParams EXCEPT !.id = Some(activation_id)], resps[1])
    IN  [calls |-> <<r.call>>,
         result |->
            IF r.kind # "ok" THEN Raise(r.kind, r.text)
            ELSE IF \E i \in 1..Len(r.text) : r.text[i] = ":"
            THEN LET p == SplitFirst(r.text, ":")
                 IN  [kind |-> "ok", status |-> p[1], code |-> Some(p[2])]
            ELSE [kind |-> "ok", status |-> r.text, code |-> None]]

\* get_sms(activation_id): one get_status; the code when the status is
\* STATUS_OK, None in every other case
get_sms(c, activation_id, resps) ==
    LET st == get_status(c, activation_id, resps)
    IN  [calls |-> st.calls,
         result |->
            IF st.result.kind # "ok" THEN st.result
            ELSE IF st.result.status = STATUS_OK
            THEN [kind |-> "ok", code |-> st.result.code]
            ELSE [kind |-> "ok", code |-> None]]

\* get_new_sms(activation_id, timeout, interval): set_status(.., 3), then
\* self.get_sms(activation_id, timeout=timeout, interval=interval); get_sms
\* takes no such keywords, so the call raises TypeError before its body runs
get_new_sms(c, activation_id, timeout, interval, resps) ==
    LET s3 == set_status(c, activation_id, 3, resps)
    IN  IF s3.result.kind # "ok" THEN s3
        ELSE [calls |-> s3.calls, result |-> Raise("TypeError", <<>>)]

(***************************************************************************)
(* Inputs of the factory: names and URLs built from a few pieces.          *)
(***************************************************************************)
\* The provider argument: absent, or up to MaxNameParts pieces in a row
ProviderNames ==
    LET pieces ==
            { <<"s","m","s">>, <<"h","u","b">>, <<"H","e","r","o">>, <<"b","o","w","e","r">>,
              <<"a","c","t","i","v","a","t","e">>, <<"-">>, <<"_">>, <<" ">> }
    IN  {None} \cup {Some(Concat(p)) : p \in SeqsUpTo(pieces, MaxNameParts)}

\* The base_url argument: absent, or up to MaxUrlParts pieces in a row
BaseUrls ==
    LET pieces ==
            { <<"s","m","s","h","u","b",".","o","r","g">>,
              <<"H","E","R","O","-","s","m","s",".","c","o","m">>,
              <<"s","m","s","-","a","c","t","i","v","a","t","e">>,
              <<"s","m","s","b","o","w","e","r">>,
              <<"/">>, <<"x",".","i","o">> }
    IN  {None} \cup {Some(Concat(p)) : p \in SeqsUpTo(pieces, MaxUrlParts)}

(***************************************************************************)
(* The factory: a caller picks the arguments, then calls get_client once.  *)
(***************************************************************************)
InitResolve ==
    /\ client = NoClient
    /\ op = "none"
    /\ args \in [provider : ProviderNames, base_url : BaseUrls]
    /\ calls = <<>>
    /\ result = [kind |-> "none", listed |-> <<>>, client |-> NoClient]

GetClient ==
    /\ op = "none"
    /\ op' = "get_client"
    /\ result' = get_client(args.provider, args.base_url)
    /\ client' = result'.client
    /\ UNCHANGED <<args, calls>>

NextResolve == GetClient

SpecResolve == InitResolve /\ [][NextResolve]_vars

(***************************************************************************)
(* JSON documents, as json.loads gives them.  Every value is a record      *)
(*   t: "num", "str", "null", "list", "dict", or "absent" for a missing key *)
(*   k: its key when it is a member of a dict                              *)
(*   n: the number, s: the string, items: the elements or members.         *)
(***************************************************************************)
JNum(d) == [t |-> "num", k |-> <<>>, n |-> d, s |-> <<>>, items |-> <<>>]
JStr(x) == [t |-> "str", k |-> <<>>, n |-> Zero, s |-> x, items |-> <<>>]
JNull == [t |-> "null", k |-> <<>>, n |-> Zero, s |-> <<>>, items |-> <<>>]
JList(xs) == [t |-> "list", k |-> <<>>, n |-> Zero, s |-> <<>>, items |-> xs]
JDict(ms) == [t |-> "dict", k |-> <<>>, n |-> Zero, s |-> <<>>, items |-> ms]
JAbsent == [t |-> "absent", k |-> <<>>, n |-> Zero, s |-> <<>>, items |-> <<>>]

\* The member key: v of a dict
Member(key, v) == [v EXCEPT !.k = key]

\* isinstance(v, dict)
IsDict(v) == v.t = "dict"
\* isinstance(v, list)
IsList(v) == v.t = "list"

\* "key in d"
HasKey(d, key) == \E i \in 1..Len(d.items) : d.items[i].k = key

\* d.get(key): the member, JAbsent (None) when there is none
Get(d, key) ==
    IF HasKey(d, key)
    THEN d.items[CHOOSE i \in 1..Len(d.items) : d.items[i].k = key]
    ELSE JAbsent

\* d.get(key, 0)
GetOr0(d, key) == IF HasKey(d, key) THEN Get(d, key) ELSE JNum(Zero)

\* "a or b": a when it is truthy (a number other than 0, a non-empty text,
\* list or dict), else b
PyOr(a, b) ==
    CASE a.t = "num" /\ a.n # Zero -> a
      [] a.t = "str" /\ a.s # <<>> -> a
      [] a.t \in {"list", "dict"} /\ a.items # <<>> -> a
      [] OTHER -> b


\* float(v): a number as it is, a text parsed, TypeError for the rest
PyFloat(v) ==
    CASE v.t = "num" -> [ok |-> TRUE, n |-> v.n]
      [] v.t = "str" /\ IsFloatText(v.s) -> [ok |-> TRUE, n |-> FloatOfText(v.s)]
      [] OTHER -> [ok |-> FALSE, n |-> Zero]

\* int(s) of a text: whitespace dropped, an optional sign, digits only
IsIntText(s) ==
    LET t == Strip(s)
        u == IF t # <<>> /\ t[1] \in {"+", "-"} THEN Tail(t) ELSE t
    IN  u # <<>> /\ \A i \in 1..Len(u) : IsDigit(u[i])

IntOfText(s) ==
    LET t == Strip(s)
        u == IF t # <<>> /\ t[1] \in {"+", "-"} THEN Tail(t) ELSE t
    IN  IF t[1] = "-" THEN 0 - DigitsVal(u) ELSE DigitsVal(u)

\* int(v): a number is truncated towards zero, a text is parsed;
\* int(float("nan")) raises ValueError
PyInt(v) ==
    CASE v.t = "num" /\ ~IsNaN(v.n) ->
           [ok |-> TRUE,
            i |-> IF v.n.m >= 0 THEN v.n.m \div Pow10(v.n.e)
                  ELSE 0 - ((0 - v.n.m) \div Pow10(v.n.e))]
      [] v.t = "str" /\ IsIntText(v.s) -> [ok |-> TRUE, i |-> IntOfText(v.s)]
      [] OTHER -> [ok |-> FALSE, i |-> 0]

(***************************************************************************)
(* sorted(xs) and xs.sort() of a list of floats, as Python sorts a short   *)
(* list: the leading run is found, reversed when it descends strictly,     *)
(* and each later element is put in place by binary insertion.  "<" is     *)
(* the only comparison made.                                               *)
(***************************************************************************)
\* The last index of the run that starts at xs[1]
RECURSIVE RunEnd(_, _, _)
RunEnd(xs, i, desc) ==
    IF i < Len(xs) /\ (NumLess(xs[i + 1], xs[i]) <=> desc)
    THEN RunEnd(xs, i + 1, desc)
    ELSE i

\* How many of the sorted xs[1..r] come before pivot, searching from l
RECURSIVE BinarySearch(_, _, _, _)
BinarySearch(xs, pivot, l, r) ==
    IF l >= r THEN l
    ELSE IF NumLess(pivot, xs[l + ((r - l) \div 2) + 1])
    THEN BinarySearch(xs, pivot, l, l + ((r - l) \div 2))
    ELSE BinarySearch(xs, pivot, l + ((r - l) \div 2) + 1, r)

\* xs[1..start] is sorted; the elements after it are inserted one by one
RECURSIVE BinarySort(_, _)
BinarySort(xs, start) ==
    IF start >= Len(xs) THEN xs
    ELSE LET l == BinarySearch(xs, xs[start + 1], 0, start)
         IN  BinarySort(SubSeq(xs, 1, l) \o <<xs[start + 1]>> \o SubSeq(xs, l + 1, start)
                            \o SubSeq(xs, start + 2, Len(xs)),
                        start + 1)

Sorted(xs) ==
    IF Len(xs) < 2 THEN xs
    ELSE LET desc == NumLess(xs[2], xs[1])
             n == RunEnd(xs, 2, desc)
         IN  BinarySort(IF desc
                        THEN [i \in 1..n |-> xs[n + 1 - i]] \o SubSeq(xs, n + 1, Len(xs))
                        ELSE xs,
                        n)

(***************************************************************************)
(* The text of a JSON document, as the vendor sends it.                    *)
(***************************************************************************)
RECURSIVE NatText(_)
NatText(n) ==
    IF n < 10 THEN <<DigitChars[n + 1]>>
    ELSE NatText(n \div 10) \o <<DigitChars[(n % 10) + 1]>>

RECURSIVE PadLeft(_, _)
PadLeft(ds, n) == IF Len(ds) >= n THEN ds ELSE PadLeft(<<"0">> \o ds, n)

NumText(d) ==
    IF IsNaN(d) THEN <<"N","a","N">>
    ELSE LET ds == PadLeft(NatText(IF d.m < 0 THEN 0 - d.m ELSE d.m), d.e + 1)
         IN  (IF d.m < 0 THEN <<"-">> ELSE <<>>)
             \o (IF d.e = 0 THEN ds
                 ELSE SubSeq(ds, 1, Len(ds) - d.e) \o <<".">>
                      \o SubSeq(ds, Len(ds) - d.e + 1, Len(ds)))

Quoted(x) == <<"\"">> \o x \o <<"\"">>

RECURSIVE Render(_)
RECURSIVE RenderItems(_, _)
Render(v) ==
    CASE v.t = "num" -> NumText(v.n)
      [] v.t = "str" -> Quoted(v.s)
      [] v.t = "list" -> <<"[">> \o RenderItems(v.items, FALSE) \o <<"]">>
      [] v.t = "dict" -> <<"{">> \o RenderItems(v.items, TRUE) \o <<"}">>
      [] OTHER -> <<"n","u","l","l">>
RenderItems(items, keyed) ==
    IF items = <<>> THEN <<>>
    ELSE (IF keyed THEN Quoted(Head(items).k) \o <<":">> ELSE <<>>)
         \o Render(Head(items))
         \o (IF Len(items) > 1 THEN <<",">> ELSE <<>>)
         \o RenderItems(Tail(items), keyed)

\* A 2xx answer whose body is the JSON text of doc
JsonBody(doc) == [http |-> "2xx", text |-> Render(doc), json |-> doc]
\* A 2xx answer whose body is no JSON text
NotJson == [t |-> "notjson", k |-> <<>>, n |-> Zero, s |-> <<>>, items |-> <<>>]
PlainBody(text) == [http |-> "2xx", text |-> text, json |-> NotJson]

\* json.loads(response): the document the text is the JSON text of;
\* NotJson stands for the JSONDecodeError when it is none
json_loads(resp) == resp.json

(***************************************************************************)
(* pyhub/sdk/base/schemas.py                                               *)
(***************************************************************************)
\* ServicePrice; cost is a float (isList FALSE, one value) or a list of floats
ServicePrice(service, cost, min_price, max_price, count) ==
    [service |-> service, cost |-> cost, min_price |-> min_price,
     max_price |-> max_price, count |-> count]

ScalarCost(x) == [isList |-> FALSE, values |-> <<x>>]
ListCost(xs) == [isList |-> TRUE, values |-> xs]

\* CountryPrices; services is the dict in insertion order, keyed by .service
CountryPrices(country_id, services) == [country_id |-> country_id, services |-> services]

\* The outcome of a step of a try block: the value built, or the exception
\* that ends the block
Ok(v) == [ok |-> TRUE, value |-> v]
Failed == [ok |-> FALSE, value |-> <<>>]

\* service_map[price.service] = price, on the dict kept as the sequence of
\* its values in insertion order
PutPrice(service_map, price) ==
    IF \E i \in 1..Len(service_map) : service_map[i].service = price.service
    THEN [i \in 1..Len(service_map) |->
            IF service_map[i].service = price.service THEN price ELSE service_map[i]]
    ELSE Append(service_map, price)

(***************************************************************************)
(* pyhub/sdk/base/client.py: get_prices, the standard price parser.        *)
(***************************************************************************)
\* The keys the parsers read
K ==
    [cost |-> <<"c","o","s","t">>, price |-> <<"p","r","i","c","e">>,
     count |-> <<"c","o","u","n","t">>,
     freePriceMap |-> <<"f","r","e","e","P","r","i","c","e","M","a","p">>,
     country |-> <<"c","o","u","n","t","r","y">>]

\* [float(p) for p in free_price_map.keys()]: the floats, or the failure of one
KeyFloats(map) ==
    IF \A i \in 1..Len(map.items) : IsFloatText(map.items[i].k)
    THEN Ok([i \in 1..Len(map.items) |-> FloatOfText(map.items[i].k)])
    ELSE Failed

\* cost = prices; min_p = prices[0]; max_p = prices[-1]
ListPrice(srv_code, prices, count) ==
    ServicePrice(srv_code, ListCost(prices), prices[1], prices[Len(prices)], count)

\* ServicePrice(service=srv_code, cost=cost, min_price=min_p, max_price=max_p,
\* count=count) from base_cost and the entry's freePriceMap (the same lines
\* in get_prices and in process_entry)
PricedService(srv_code, base_cost, free_price_map, count) ==
    IF IsDict(free_price_map) /\ free_price_map.items # <<>>
    THEN LET fs == KeyFloats(free_price_map)
         IN  IF fs.ok THEN Ok(ListPrice(srv_code, Sorted(fs.value), count)) ELSE Failed
    ELSE Ok(ServicePrice(srv_code, ScalarCost(base_cost), base_cost, base_cost, count))

\* The ServicePrice get_prices builds from one srv_data dict
StdServicePrice(srv_code, srv_data) ==
    LET base_cost == PyFloat(PyOr(GetOr0(srv_data, K.cost), GetOr0(srv_data, K.price)))
        count == PyInt(PyOr(GetOr0(srv_data, K.count), JNum(Zero)))
    IN  IF base_cost.ok /\ count.ok
        THEN PricedService(srv_code, base_cost.n, Get(srv_data, K.freePriceMap), count.i)
        ELSE Failed

\* service_map[srv_code] = sp, when sp was built
WithPrice(service_map, sp) ==
    IF sp.ok THEN Ok(PutPrice(service_map, sp.value)) ELSE Failed

\* The loop over services.items(), from the service_map built so far: the
\* service_map, or the failure of an entry
RECURSIVE StdServiceMap(_, _)
StdServiceMap(members, service_map) ==
    IF members = <<>> \/ ~service_map.ok THEN service_map
    ELSE StdServiceMap(Tail(members),
                       IF ~IsDict(Head(members)) THEN service_map
                       ELSE WithPrice(service_map.value,
                                      StdServicePrice(Head(members).k, Head(members))))

\* if service_map: result.append(CountryPrices(country_id=int(country_id),
\* services=service_map))
WithCountry(results, country_id, sm) ==
    IF ~sm.ok THEN Failed
    ELSE IF sm.value = <<>> THEN Ok(results)
    ELSE IF IsIntText(country_id)
    THEN Ok(Append(results, CountryPrices(IntOfText(country_id), sm.value)))
    ELSE Failed

\* The loop over data.items(): the result list, or the failure of a country
RECURSIVE StdCountries(_, _)
StdCountries(members, results) ==
    IF members = <<>> \/ ~results.ok THEN results
    ELSE StdCountries(Tail(members),
                      IF ~IsDict(Head(members)) THEN results
                      ELSE WithCountry(results.value, Head(members).k,
                                       StdServiceMap(Head(members).items, Ok(<<>>))))

\* The try block of get_prices on the loaded document; data = data[0] for a
\* list with a dictionary in front
ParseStdPrices(loaded) ==
    LET data == IF IsList(loaded) /\ loaded.items # <<>> /\ IsDict(loaded.items[1])
                THEN loaded.items[1] ELSE loaded
    IN  IF loaded = NotJson THEN Failed
        ELSE IF IsDict(data) THEN StdCountries(data.items, Ok(<<>>))
        ELSE Ok(<<>>)

\* The params of the pricing calls; free_price is "True", "False", "None",
\* or "omitted" when the caller leaves it to the default
PriceParams(service, country, free_price) ==
    [NoParams EXCEPT
        !.service = IF Truthy(service) THEN service ELSE None,
        !.country = country,
        !.freePrice = IF free_price = "True"
                      THEN [some |-> TRUE, v |-> TRUE] ELSE NoneBool]

\* The outcome of a pricing call: the error of the transport r, the list
\* parsed, or the ValueError of the except clause with its text
PricesOutcome(r, parsed, text) ==
    [calls |-> <<r.call>>,
     result |->
        IF r.kind # "ok" THEN Raise(r.kind, r.text)
        ELSE IF parsed.ok THEN [kind |-> "ok", list |-> parsed.value]
        ELSE Raise("ParseError", text)]

\* ClientBase.get_prices
base_get_prices(c, service, country, free_price, resps) ==
    PricesOutcome(Request(c, "getPrices", PriceParams(service, country, free_price), resps[1]),
                  ParseStdPrices(json_loads(resps[1])),
                  resps[1].text)

(***************************************************************************)
(* pyhub/sdk/base/client.py: get_top_countries_by_service.                 *)
(***************************************************************************)
\* PutService without the pivot: every entry opens a CountryPrices of its own
PutService_AlwaysAppends(country_map, c_id, price) ==
    Append(country_map, CountryPrices(c_id, <<price>>))

\* country_map[c_id][price.service] = price, on the map kept as a list of
\* CountryPrices in insertion order
PutService(country_map, c_id, price) ==
    IF \E i \in 1..Len(country_map) : country_map[i].country_id = c_id
    THEN [i \in 1..Len(country_map) |->
            IF country_map[i].country_id = c_id
            THEN CountryPrices(c_id, PutPrice(country_map[i].services, price))
            ELSE country_map[i]]
    ELSE Append(country_map, CountryPrices(c_id, <<price>>))

\* country_map[c_id][srv_code] = sp, when sp was built
WithService(country_map, c_id, sp) ==
    IF sp.ok THEN Ok(PutService(country_map, c_id, sp.value)) ELSE Failed

\* process_entry(srv_code, entry): the country_map afterwards, or the failure.
\* An entry that is no dict has no .get and fails.
process_entry(srv_code, entry, country_map) ==
    IF ~IsDict(entry) THEN Failed
    ELSE IF Get(entry, K.country).t \in {"absent", "null"} THEN Ok(country_map)
    ELSE LET c_id == PyInt(Get(entry, K.country))
             base_cost == PyFloat(PyOr(PyOr(GetOr0(entry, K.price), GetOr0(entry, K.cost)),
                                       JNum(Zero)))
             count == PyInt(PyOr(GetOr0(entry, K.count), JNum(Zero)))
         IN  IF c_id.ok /\ base_cost.ok /\ count.ok
             THEN WithService(country_map, c_id.i,
                              PricedService(srv_code, base_cost.n,
                                            Get(entry, K.freePriceMap), count.i))
             ELSE Failed

\* for entry in entries: process_entry(srv_code, entry), with or without the
\* isinstance(entry, dict) test in front
RECURSIVE ProcessEntries(_, _, _, _)
ProcessEntries(srv_code, entries, country_map, dictsOnly) ==
    IF entries = <<>> \/ ~country_map.ok THEN country_map
    ELSE ProcessEntries(srv_code, Tail(entries),
                        IF dictsOnly /\ ~IsDict(Head(entries)) THEN country_map
                        ELSE process_entry(srv_code, Head(entries), country_map.value),
                        dictsOnly)

\* for srv_code, entries in item.items(): a list or a dict of entries is
\* processed, anything else is passed over
RECURSIVE ProcessServices(_, _)
ProcessServices(members, country_map) ==
    IF members = <<>> \/ ~country_map.ok THEN country_map
    ELSE ProcessServices(Tail(members),
                         IF IsList(Head(members)) \/ IsDict(Head(members))
                         THEN ProcessEntries(Head(members).k, Head(members).items,
                                             country_map, FALSE)
                         ELSE country_map)

\* for item in data: if isinstance(item, dict): ...
RECURSIVE ProcessItems(_, _)
ProcessItems(items, country_map) ==
    IF items = <<>> \/ ~country_map.ok THEN country_map
    ELSE ProcessItems(Tail(items),
                      IF IsDict(Head(items))
                      THEN ProcessServices(Head(items).items, country_map)
                      ELSE country_map)

\* The try block of get_top_countries_by_service on the loaded document;
\* with a service, entries = data[service] if data is a dict holding it
ParseTopCountries(service, data) ==
    IF data = NotJson THEN Failed
    ELSE IF Truthy(service)
    THEN LET entries == IF IsDict(data) /\ HasKey(data, service.v)
                        THEN Get(data, service.v) ELSE data
         IN  IF IsList(entries) \/ IsDict(entries)
             THEN ProcessEntries(service.v, entries.items, Ok(<<>>), TRUE)
             ELSE Ok(<<>>)
    ELSE IF IsList(data) THEN ProcessItems(data.items, Ok(<<>>))
    ELSE IF IsDict(data) THEN ProcessServices(data.items, Ok(<<>>))
    ELSE Ok(<<>>)

get_top_countries_by_service(c, service, free_price, resps) ==
    PricesOutcome(Request(c, "getTopCountriesByService",
                          PriceParams(service, NoneInt, free_price), resps[1]),
                  ParseTopCountries(service, json_loads(resps[1])),
                  Prefix(resps[1].text, 200))

(***************************************************************************)
(* pyhub/sdk/herosms/client.py                                             *)
(***************************************************************************)
\* OfCountry with "if country:" for "if country is not None:": country 0
\* counts as omitted
OfCountry_TruthyCountry(top, country) ==
    IF top.result.kind # "ok" \/ ~country.some \/ country.v = 0 THEN top
    ELSE [calls |-> top.calls,
          result |-> [kind |-> "ok",
                      list |-> SelectSeq(top.result.list,
                                         LAMBDA r : r.country_id = country.v)]]

\* [r for r in results if r.country_id == country] if country is not None
OfCountry(top, country) ==
    IF top.result.kind # "ok" \/ ~country.some THEN top
    ELSE [calls |-> top.calls,
          result |-> [kind |-> "ok",
                      list |-> SelectSeq(top.result.list,
                                         LAMBDA r : r.country_id = country.v)]]

\* HeroSMSClient.get_prices; its free_price defaults to True
hero_get_prices(c, service, country, free_price, resps) ==
    OfCountry(get_top_countries_by_service(
                  c, service, IF free_price = "omitted" THEN "True" ELSE free_price, resps),
              country)

(***************************************************************************)
(* pyhub/sdk/smsbower/client.py                                            *)
(***************************************************************************)
\* prices.append(p); total_count += int(count)
Priced(acc, p, n) ==
    IF p.ok /\ n.ok
    THEN Ok([prices |-> Append(acc.prices, p.n), total_count |-> acc.total_count + n.i])
    ELSE Failed

\* The inner loop of _parse_complex_prices for one srv_data: the prices in
\* the order met and the total count, or the failure.  v2 reads a price_str,
\* count pair, v3 a provider_data, which has no .get when it is no dict.
RECURSIVE ComplexPrices(_, _, _)
ComplexPrices(members, version, acc) ==
    IF members = <<>> \/ ~acc.ok THEN acc
    ELSE ComplexPrices(
            Tail(members), version,
            IF version = "v2"
            THEN Priced(acc.value, PyFloat(JStr(Head(members).k)), PyInt(Head(members)))
            ELSE IF IsDict(Head(members))
            THEN Priced(acc.value, PyFloat(GetOr0(Head(members), K.price)),
                        PyInt(GetOr0(Head(members), K.count)))
            ELSE Failed)

\* ServicePrice(service=srv_code, cost=prices if len(prices) > 1 else
\* prices[0], min_price=prices[0], max_price=prices[-1], count=total_count)
\* of the sorted prices
ComplexServicePrice(srv_code, prices, total_count) ==
    ServicePrice(srv_code,
                 IF Len(prices) > 1 THEN ListCost(prices) ELSE ScalarCost(prices[1]),
                 prices[1], prices[Len(prices)], total_count)

\* if prices: prices.sort(); service_map[srv_code] = ServicePrice(...)
WithComplexPrice(service_map, srv_code, cp) ==
    IF ~cp.ok THEN Failed
    ELSE IF cp.value.prices = <<>> THEN Ok(service_map)
    ELSE Ok(PutPrice(service_map,
                     ComplexServicePrice(srv_code, Sorted(cp.value.prices),
                                         cp.value.total_count)))

\* The loop over services.items() of _parse_complex_prices; srv_data.items()
\* and srv_data.values() fail when srv_data is no dict
RECURSIVE ComplexServiceMap(_, _, _)
ComplexServiceMap(members, version, service_map) ==
    IF members = <<>> \/ ~service_map.ok THEN service_map
    ELSE ComplexServiceMap(
            Tail(members), version,
            IF ~IsDict(Head(members)) THEN Failed
            ELSE WithComplexPrice(service_map.value, Head(members).k,
                                  ComplexPrices(Head(members).items, version,
                                                Ok([prices |-> <<>>, total_count |-> 0]))))

\* The loop over data.items() of _parse_complex_prices; services.items()
\* fails when services is no dict
RECURSIVE ComplexCountries(_, _, _)
ComplexCountries(members, version, results) ==
    IF members = <<>> \/ ~results.ok THEN results
    ELSE ComplexCountries(
            Tail(members), version,
            IF ~IsDict(Head(members)) THEN Failed
            ELSE WithCountry(results.value, Head(members).k,
                             ComplexServiceMap(Head(members).items, version, Ok(<<>>))))

\* SMSBowerClient._parse_complex_prices(data, version); data.items() fails
\* when data is no dict
parse_complex_prices(data, version) ==
    IF ~IsDict(data) THEN Failed ELSE ComplexCountries(data.items, version, Ok(<<>>))

\* get_prices_v2 and get_prices_v3 differ in the action and the version
ComplexPricesCall(c, action, version, service, country, resps) ==
    PricesOutcome(Request(c, action, PriceParams(service, country, "omitted"), resps[1]),
                  parse_complex_prices(json_loads(resps[1]), version),
                  Prefix(resps[1].text, 200))

get_prices_v2(c, service, country, resps) ==
    ComplexPricesCall(c, "getPricesV2", "v2", service, country, resps)

get_prices_v3(c, service, country, resps) ==
    ComplexPricesCall(c, "getPricesV3", "v3", service, country, resps)

\* SMSBowerClient.get_prices
bower_get_prices(c, service, country, free_price, resps) ==
    get_prices_v2(c, service, country, resps)

\* client.get_prices(...), by the class of the client
get_prices(c, service, country, free_price, resps) ==
    CASE c.class = "HeroSMSClient" -> hero_get_prices(c, service, country, free_price, resps)
      [] c.class = "SMSBowerClient" -> bower_get_prices(c, service, country, free_price, resps)
      [] OTHER -> base_get_prices(c, service, country, free_price, resps)

(***************************************************************************)
(* The vendor's JSON answers to the pricing calls.                         *)
(***************************************************************************)
\* Sequences over S of length 0..n without a repeated element (dict keys)
DistinctSeqs(S, n) ==
    {q \in SeqsUpTo(S, n) : \A i, j \in 1..Len(q) : i # j => q[i] # q[j]}

\* A dict of the given members, those that are absent left out
Obj(members) == JDict(SelectSeq(members, LAMBDA m : m.t # "absent"))

N(m, e) == JNum(Dec(m, e))

TG == <<"t","g">>
WA == <<"w","a">>
NO_KEYS == <<"N","O","_","K","E","Y","S">>

\* Price texts: two texts of one price, another price, a text that is no
\* number, and "nan"
PriceKeys ==
    { <<"1","0",".","5">>, <<"1","0",".","5","0">>, <<"1","5",".","0">>, <<"x">>, NAN }

\* freePriceMap dicts: price text -> anything
FreePriceMaps ==
    {JDict([i \in 1..Len(q) |-> Member(q[i], N(1, 0))]) : q \in DistinctSeqs(PriceKeys, MaxPrices)}

\* Documents country -> value, for up to two countries
CountryDocs(values) ==
    UNION {{JDict([i \in 1..Len(ks) |-> Member(ks[i], vs[i])]) : vs \in [1..Len(ks) -> values]} :
           ks \in DistinctSeqs({ <<"0">>, <<"7">>, <<"x">> }, 2)}

\* Documents with one country "0" and one service "tg"
LeafDocs(entries) ==
    {JDict(<<Member(<<"0">>, JDict(<<Member(TG, e)>>))>>) : e \in entries}

\* Documents that are no dict and hold none in front
OddDocs == { N(5, 0), JStr(TG), JNull, JList(<<>>), JList(<<N(5, 0)>>) }

PlainBodies ==
    { PlainBody(<<"N","O","_","N","U","M","B","E","R","S">>),
      PlainBody(<<"{","B","A","D","_","K","E","Y">>),
      [http |-> "error", text |-> <<>>, json |-> NotJson] }

\* getPrices entries
StdEntry(cost, price, count, fpm) ==
    Obj(<<Member(K.cost, cost), Member(K.price, price), Member(K.count, count),
          Member(K.freePriceMap, fpm)>>)

\* The answers to getPrices
StdResponses ==
    LET entries ==
            {StdEntry(c, p, n, f) :
                c \in {JAbsent, N(0, 0), N(105, 1), JStr(<<"x">>), JNum(NaN)},
                p \in {JAbsent, N(3, 0), JNull},
                n \in {JAbsent, N(100, 0), JStr(<<"x">>)},
                f \in {JAbsent, JNull}}
            \cup
            {StdEntry(c, JAbsent, N(100, 0), f) :
                c \in {N(105, 1), JStr(<<"x">>)}, f \in FreePriceMaps}
        simple == StdEntry(N(105, 1), JAbsent, N(100, 0), JAbsent)
        simple2 == StdEntry(JAbsent, N(3, 0), JAbsent, JAbsent)
        serviceMaps ==
            { N(1, 0), JDict(<<>>),
              JDict(<<Member(TG, simple)>>),
              JDict(<<Member(TG, N(1, 0))>>),
              JDict(<<Member(TG, simple), Member(WA, simple2)>>),
              JDict(<<Member(NO_KEYS, simple)>>) }
        docs == LeafDocs(entries) \cup CountryDocs(serviceMaps)
    IN  {JsonBody(d) : d \in docs \cup {JList(<<d>>) : d \in docs}
                              \cup {JList(<<d, N(5, 0)>>) : d \in LeafDocs({simple})}
                              \cup OddDocs}
        \cup PlainBodies

\* getTopCountriesByService entries
TopEntry(country, price, cost, count, fpm) ==
    Obj(<<Member(K.country, country), Member(K.price, price), Member(K.cost, cost),
          Member(K.count, count), Member(K.freePriceMap, fpm)>>)

\* The index-keyed dict "0", "1", ... of a list of entries
Indexed(entries) == JDict([i \in 1..Len(entries) |-> Member(NatText(i - 1), entries[i])])

\* The answers to getTopCountriesByService
TopResponses ==
    LET leaves ==
            {TopEntry(N(0, 0), p, c, n, JAbsent) :
                p \in {JAbsent, N(0, 0), N(10, 0), JNum(NaN)}, c \in {JAbsent, N(3, 0)},
                n \in {JAbsent, N(100, 0)}}
            \cup
            {TopEntry(N(0, 0), p, JAbsent, N(100, 0), f) :
                p \in {N(10, 0), JStr(<<"x">>)}, f \in FreePriceMaps}
            \cup
            {TopEntry(JStr(<<"x">>), N(10, 0), JAbsent, N(100, 0), JAbsent)}
        simple ==
            { TopEntry(N(0, 0), N(10, 0), JAbsent, N(100, 0), JAbsent),
              TopEntry(N(7, 0), N(20, 0), JAbsent, N(5, 0), JAbsent),
              TopEntry(JStr(<<"0">>), JAbsent, N(30, 0), JAbsent, JAbsent),
              TopEntry(JAbsent, N(10, 0), JAbsent, N(100, 0), JAbsent),
              N(1, 0) }
        lists == SeqsUpTo(simple, MaxEntries)
        leafLists == {<<e>> : e \in leaves}
        docs ==
            {JList(l) : l \in lists \cup leafLists}
            \cup {Indexed(l) : l \in lists}
            \cup {JDict(<<Member(TG, JList(l))>>) : l \in lists \cup leafLists}
            \cup {JDict(<<Member(TG, Indexed(l))>>) : l \in lists}
            \cup {JList(<<JDict(<<Member(TG, JList(l))>>)>>) : l \in lists}
            \cup {JDict(<<Member(TG, JList(l1)), Member(WA, Indexed(l2))>>) :
                    l1 \in SeqsUpTo(simple, 1), l2 \in SeqsUpTo(simple, 1)}
            \cup {JList(<<JDict(<<Member(TG, JList(l1))>>), JDict(<<Member(WA, JList(l2))>>)>>) :
                    l1 \in SeqsUpTo(simple, 1), l2 \in SeqsUpTo(simple, 1)}
            \cup {JDict(<<Member(NO_KEYS, JList(<<e>>))>>) : e \in simple}
            \cup OddDocs
    IN  {JsonBody(d) : d \in docs} \cup PlainBodies

\* The v2/v3 documents from a set of price maps and two plain price maps a, b:
\* one country with one service, and up to two countries of several services
ComplexDocs(maps, a, b) ==
    LeafDocs(maps)
    \cup CountryDocs({ N(1, 0), JDict(<<>>),
                       JDict(<<Member(TG, a)>>),
                       JDict(<<Member(TG, JDict(<<>>))>>),
                       JDict(<<Member(TG, a), Member(WA, b)>>),
                       JDict(<<Member(TG, JDict(<<>>)), Member(WA, b)>>),
                       JDict(<<Member(NO_KEYS, a)>>) })
    \cup OddDocs

\* The answers to getPricesV2; a price map is price text -> count
V2Responses ==
    LET maps ==
            UNION {{JDict([i \in 1..Len(q) |-> Member(q[i], ns[i])]) :
                        ns \in [1..Len(q) -> {N(100, 0), N(50, 0)}]} :
                   q \in DistinctSeqs(PriceKeys, MaxPrices)}
            \cup { JDict(<<Member(<<"1","0",".","5">>, JStr(<<"x">>))>>),
                   JDict(<<Member(<<"1","0",".","5">>, JNull)>>), N(1, 0) }
        a == JDict(<<Member(<<"1","0",".","5">>, N(100, 0)),
                     Member(<<"1","5",".","0">>, N(50, 0))>>)
        b == JDict(<<Member(<<"1","5",".","0">>, N(50, 0))>>)
    IN  {JsonBody(d) : d \in ComplexDocs(maps, a, b)} \cup PlainBodies

\* The answers to getPricesV3; a price map is provider id -> {price, count}
V3Responses ==
    LET Provider(price, count) == Obj(<<Member(K.price, price), Member(K.count, count)>>)
        ProviderId(i) == <<"p","r","o","v">> \o NatText(i)
        providers3 ==
            { Provider(N(12, 0), N(10, 0)), Provider(N(15, 0), N(5, 0)),
              Provider(JAbsent, N(10, 0)), Provider(N(12, 0), JAbsent),
              Provider(JStr(<<"x">>), N(10, 0)), Provider(JNum(NaN), N(10, 0)), N(1, 0) }
        maps ==
            {JDict([i \in 1..Len(q) |-> Member(ProviderId(i), q[i])]) :
                q \in SeqsUpTo(providers3, MaxPrices)}
            \cup { N(1, 0) }
        a == JDict(<<Member(ProviderId(1), Provider(N(12, 0), N(10, 0))),
                     Member(ProviderId(2), Provider(N(15, 0), N(5, 0)))>>)
        b == JDict(<<Member(ProviderId(1), Provider(N(15, 0), N(5, 0)))>>)
    IN  {JsonBody(d) : d \in ComplexDocs(maps, a, b)} \cup PlainBodies

\* The answers getPrices, getTopCountriesByService or getPricesV2 may get,
\* by the call the client's class makes of get_prices
PricesResponses(class) ==
    CASE class = "HeroSMSClient" -> TopResponses
      [] class = "SMSBowerClient" -> V2Responses
      [] OTHER -> StdResponses

ServiceArgs == { None, Some(TG) }
CountryArgs == { NoneInt, [some |-> TRUE, v |-> 0] }
FreePriceArgs == { "omitted", "False", "True" }

(***************************************************************************)
(* The vendor's answers: an HTTP failure, or a 2xx body made of up to      *)
(* MaxFields colon-separated fields.                                       *)
(***************************************************************************)
HttpError == [http |-> "error", text |-> <<>>]
Body(text) == [http |-> "2xx", text |-> text]

TextResponses(fields) ==
    {HttpError} \cup
    {Body(Join(f, ":")) : f \in (SeqsUpTo(fields, MaxFields) \ {<<>>})}

BalanceResponses ==
    TextResponses({ <<"A","C","C","E","S","S","_","B","A","L","A","N","C","E">>,
                    <<"1","0","0",".","5","0">>, <<"1",".","5">>, <<" ","2">>, <<>>,
                    <<"x","N","O","_","K","E","Y","x">> })

NumberResponses ==
    TextResponses({ ACCESS_NUMBER,
                    <<"A","C","C","E","S","S","_","N","U","M","B","E","R","S">>,
                    <<"1","2","3","4","5">>, <<>>,
                    <<"7","B","A","N","N","E","D">> })

StatusResponses ==
    TextResponses({ STATUS_OK,
                    <<"S","T","A","T","U","S","_","W","A","I","T","_","C","O","D","E">>,
                    <<"1","2","3","4","5","6">>, <<>>,
                    <<"E","R","R","O","R","_","S","Q","L">> })

SetStatusResponses ==
    { HttpError,
      Body(<<"A","C","C","E","S","S","_","R","E","A","D","Y">>),
      Body(<<"A","C","C","E","S","S","_","R","E","T","R","Y","_","G","E","T">>),
      Body(<<"B","A","D","_","A","C","T","I","O","N">>),
      Body(<<"W","R","O","N","G","_","A","C","T","I","V","A","T","I","O","N","_","I","D">>) }

ActivationIds == { <<"1","2","3","4","5">>, <<"9">> }

\* The clients get_client(provider=...) constructs with the default endpoints
DefaultClients == {ClientBase_init(k, DefaultBaseUrl(k)) : k \in ClientClasses}

(***************************************************************************)
(* A client in use: a caller holds a constructed client and calls one      *)
(* operation; the vendor's answers are chosen as the calls are issued.     *)
(***************************************************************************)
Init ==
    /\ client \in DefaultClients
    /\ op = "none"
    /\ args = [none |-> TRUE]
    /\ calls = <<>>
    /\ result = [kind |-> "none"]

Idle == op = "none"

\* The operation named o, called with arguments a, ran to the outcome r
Ran(o, a, r) ==
    /\ op' = o
    /\ args' = a
    /\ calls' = r.calls
    /\ result' = r.result
    /\ UNCHANGED client

GetBalance ==
    /\ Idle
    /\ \E resp \in BalanceResponses :
           Ran("get_balance", [none |-> TRUE], get_balance(client, <<resp>>))

GetNumber ==
    /\ Idle
    /\ \E service \in {TG},
          country \in {NoneInt, [some |-> TRUE, v |-> 0], [some |-> TRUE, v |-> 73],
                       [some |-> TRUE, v |-> 6]},
          operator \in {None, Some(<<>>), Some(<<"m","t","s">>)},
          resp \in NumberResponses :
           Ran("get_number",
               [service |-> service, country |-> country, operator |-> operator],
               get_number(client, service, country, operator, <<resp>>))

SetStatus ==
    /\ Idle
    /\ \E id \in ActivationIds, status \in {1, 3, 6, 8}, resp \in SetStatusResponses :
           Ran("set_status", [activation_id |-> id, status |-> status],
               set_status(client, id, status, <<resp>>))

ReactivationNumber ==
    /\ Idle
    /\ \E id \in ActivationIds, resp1 \in NumberResponses,
          resp2 \in SetStatusResponses :
           Ran("reactivation_number", [activation_id |-> id],
               reactivation_number(client, id, <<resp1, resp2>>))

GetStatus ==
    /\ Idle
    /\ \E id \in ActivationIds, resp \in StatusResponses :
           Ran("get_status", [activation_id |-> id], get_status(client, id, <<resp>>))

GetSms ==
    /\ Idle
    /\ \E id \in ActivationIds, resp \in StatusResponses :
           Ran("get_sms", [activation_id |-> id], get_sms(client, id, <<resp>>))

GetNewSms ==
    /\ Idle
    /\ \E id \in ActivationIds, timeout \in {0, 60}, interval \in {5},
          resp1 \in SetStatusResponses, resp2 \in StatusResponses :
           Ran("get_new_sms",
               [activation_id |-> id, timeout |-> timeout, interval |-> interval],
               get_new_sms(client, id, timeout, interval, <<resp1, resp2>>))

GetPrices ==
    /\ Idle
    /\ \E service \in ServiceArgs, country \in CountryArgs, free_price \in FreePriceArgs,
          resp \in PricesResponses(client.class) :
           Ran("get_prices",
               [service |-> service, country |-> country, free_price |-> free_price],
               get_prices(client, service, country, free_price, <<resp>>))

GetTopCountriesByService ==
    /\ Idle
    /\ \E service \in ServiceArgs, free_price \in FreePriceArgs, resp \in TopResponses :
           Ran("get_top_countries_by_service",
               [service |-> service, free_price |-> free_price],
               get_top_countries_by_service(client, service, free_price, <<resp>>))

GetPricesV2 ==
    /\ Idle
    /\ client.class = "SMSBowerClient"
    /\ \E service \in ServiceArgs, country \in CountryArgs, resp \in V2Responses :
           Ran("get_prices_v2", [service |-> service, country |-> country],
               get_prices_v2(client, service, country, <<resp>>))

GetPricesV3 ==
    /\ Idle
    /\ client.class = "SMSBowerClient"
    /\ \E service \in ServiceArgs, country \in CountryArgs, resp \in V3Responses :
           Ran("get_prices_v3", [service |-> service, country |-> country],
               get_prices_v3(client, service, country, <<resp>>))

Next ==
    \/ GetBalance
    \/ GetNumber
    \/ SetStatus
    \/ ReactivationNumber
    \/ GetStatus
    \/ GetSms
    \/ GetNewSms
    \/ GetPrices
    \/ GetTopCountriesByService
    \/ GetPricesV2
    \/ GetPricesV3

Spec == Init /\ [][Next]_vars

(***************************************************************************)
(* Provider resolution properties.                                         *)
(***************************************************************************)
NameTable ==
    { <<SMSHUB, "SMSHubClient">>, <<HEROSMS, "HeroSMSClient">>,
      <<SMSACTIVATE, "SMSActivateClient">>, <<SMSBOWER, "SMSBowerClient">>,
      <<HERO, "HeroSMSClient">>, <<BOWER, "SMSBowerClient">> }

\* C4 (as claimed): every supplied (non-absent, non-empty) provider name either resolves
\* to the client class of its normalized name, or fails with
\* UnknownProviderError listing all known names; it never ends in
\* MissingProviderError and never falls back to URL detection.
C4_SuppliedNameResolvesOrUnknown ==
    (op = "get_client" /\ args.provider.some /\ args.provider.v # <<>>) =>
        LET n == NormalizeName(args.provider.v)
        IN  IF \E e \in NameTable : e[1] = n
            THEN /\ result.kind = "ok"
                 /\ <<n, result.client.class>> \in NameTable
            ELSE /\ result.kind = "UnknownProviderError"
                 /\ {result.listed[i] : i \in 1..Len(result.listed)}
                        = {e[1] : e \in NameTable}

\* The class the URL patterns give, tried in the fixed order
ClassOfFirstPattern(url) ==
    LET u == Lower(url)
    IN  IF Contains(u, <<"s","m","s","h","u","b",".","o","r","g">>) THEN "SMSHubClient"
        ELSE IF Contains(u, <<"h","e","r","o","-","s","m","s",".","c","o","m">>)
             THEN "HeroSMSClient"
        ELSE IF Contains(u, <<"s","m","s","-","a","c","t","i","v","a","t","e">>)
             THEN "SMSActivateClient"
        ELSE IF Contains(u, <<"s","m","s","b","o","w","e","r">>) THEN "SMSBowerClient"
        ELSE "SMSHubClient"

\* C5 (as claimed): with no provider name but a (non-empty) base URL, the client is of
\* the class of the first matching pattern (SMSHub when none matches, without
\* an error) and its endpoint is the supplied URL.
C5_UrlDetectionEndpointIsUrl ==
    (op = "get_client" /\ ~args.provider.some /\ args.base_url.some
        /\ args.base_url.v # <<>>) =>
        /\ result.kind = "ok"
        /\ client.class = ClassOfFirstPattern(args.base_url.v)
        /\ client.base_url = args.base_url.v

\* C5 (amended): with no provider name and a non-empty base URL, the client
\* is of the class of the first matching pattern (SMSHub when none matches,
\* without an error) and its endpoint is the supplied URL with its trailing
\* "/" characters removed.
C5_UrlDetectionEndpointIsStrippedUrl ==
    (op = "get_client" /\ ~args.provider.some /\ args.base_url.some
        /\ args.base_url.v # <<>>) =>
        /\ result.kind = "ok"
        /\ client.class = ClassOfFirstPattern(args.base_url.v)
        /\ \E k \in 0..Len(args.base_url.v) :
              /\ client.base_url = SubSeq(args.base_url.v, 1, Len(args.base_url.v) - k)
              /\ \A i \in 1..Len(args.base_url.v) :
                    i > Len(args.base_url.v) - k => args.base_url.v[i] = "/"
              /\ (client.base_url # <<>> => client.base_url[Len(client.base_url)] # "/")

\* A URL in upper case holding two patterns, detected as the first of them
C5_Witness ==
    /\ op = "get_client" /\ ~args.provider.some /\ args.base_url.some
    /\ Contains(args.base_url.v, <<"H","E","R","O","-","s","m","s",".","c","o","m">>)
    /\ Contains(args.base_url.v, <<"s","m","s","b","o","w","e","r">>)
    /\ client.class = "HeroSMSClient"

\* C6: get_client with neither a provider name nor a base URL fails with
\* MissingProviderError; that failure and UnknownProviderError leave no
\* client constructed and no transport call issued.
C6_MissingProviderFailsFast ==
    /\ (op = "get_client" /\ ~args.provider.some /\ ~args.base_url.some) =>
            result.kind = "MissingProviderError"
    /\ (op = "get_client"
            /\ result.kind \in {"MissingProviderError", "UnknownProviderError"}) =>
            (client = NoClient /\ calls = <<>>)

C6_Witness ==
    /\ op = "get_client" /\ ~args.provider.some /\ ~args.base_url.some
    /\ result.kind = "MissingProviderError"

(***************************************************************************)
(* Properties of the colon-delimited operations.                           *)
(***************************************************************************)
VendorTokens ==
    { <<"B","A","D","_","K","E","Y">>, <<"E","R","R","O","R","_","S","Q","L">>,
      <<"B","A","D","_","A","C","T","I","O","N">>,
      <<"W","R","O","N","G","_","A","C","T","I","V","A","T","I","O","N","_","I","D">>,
      <<"N","O","_","K","E","Y">>, <<"B","A","N","N","E","D">> }

HasToken(text) == \E t \in VendorTokens : Contains(text, t)

\* The vendor's answer to the i-th call was a 2xx body free of error tokens
Answered(i) ==
    /\ i <= Len(calls)
    /\ calls[i].resp.http = "2xx"
    /\ ~HasToken(calls[i].resp.text)

\* C1: in every operation, a 2xx body holding one of the six tokens anywhere
\* makes the operation fail with VendorError carrying that body; no value is
\* returned and the call is the operation's last.
C1_TokenAnywhereIsVendorError ==
    \A i \in 1..Len(calls) :
        (calls[i].resp.http = "2xx" /\ HasToken(calls[i].resp.text)) =>
            /\ result.kind = "VendorError"
            /\ result.text = calls[i].resp.text
            /\ i = Len(calls)

\* A body that holds a token without being one
C1_Witness ==
    /\ op = "get_number"
    /\ calls[1].resp.http = "2xx"
    /\ HasToken(calls[1].resp.text)
    /\ calls[1].resp.text \notin VendorTokens
    /\ StartsWith(calls[1].resp.text, ACCESS_NUMBER)
    /\ result.kind = "VendorError"

\* C2: reactivation_number(id), answered ACCESS_NUMBER:<newId>:<phone>,
\* issues exactly getExtraActivation(activationId=id) and then
\* setStatus(id=newId, status=1); a NumberActivation is returned only once
\* the setStatus call has succeeded, and its activation_id is newId.
C2_ReactivationTwoCallsInOrder ==
    (op = "reactivation_number" /\ Answered(1)
        /\ Len(Split(calls[1].resp.text, ":")) >= 3
        /\ Split(calls[1].resp.text, ":")[1] = ACCESS_NUMBER) =>
        LET newId == Split(calls[1].resp.text, ":")[2]
        IN  /\ Len(calls) = 2
            /\ calls[1].action = "getExtraActivation"
            /\ calls[1].params = [NoParams EXCEPT !.activationId = Some(args.activation_id)]
            /\ calls[2].action = "setStatus"
            /\ calls[2].params = [NoParams EXCEPT !.id = Some(newId),
                                                  !.status = [some |-> TRUE, v |-> 1]]
            /\ (result.kind = "ok") = Answered(2)
            /\ (result.kind = "ok" => result.activation_id = newId)

C2_Witness ==
    /\ op = "reactivation_number"
    /\ Len(calls) = 2
    /\ Answered(1) /\ Answered(2)
    /\ result.kind = "ok"
    /\ result.activation_id # <<>>
    /\ result.activation_id # args.activation_id

\* C3 (as claimed): get_new_sms(id), when the vendor's answers are no errors,
\* issues exactly setStatus(id, 3) and then getStatus(id) and completes with
\* the single-check result: the code when the status is STATUS_OK, no code
\* otherwise.
C3_NewSmsSetsStatusThenChecksOnce ==
    (op = "get_new_sms" /\ \A i \in 1..Len(calls) : Answered(i)) =>
        /\ Len(calls) = 2
        /\ calls[1].action = "setStatus"
        /\ calls[1].params = [NoParams EXCEPT !.id = Some(args.activation_id),
                                              !.status = [some |-> TRUE, v |-> 3]]
        /\ calls[2].action = "getStatus"
        /\ calls[2].params = [NoParams EXCEPT !.id = Some(args.activation_id)]
        /\ result.kind = "ok"
        /\ LET p == SplitFirst(calls[2].resp.text, ":")
           IN  result.code = IF p[1] = STATUS_OK /\ Len(p) = 2 THEN Some(p[2]) ELSE None

\* C7 (as claimed): get_balance splits on the first colon only; the amount is
\* the number after it, and a text without a colon, or whose whole tail is no
\* number, fails with ParseError.
C7_BalanceIsWholeTailAfterFirstColon ==
    (op = "get_balance" /\ Answered(1)) =>
        LET p == SplitFirst(calls[1].resp.text, ":")
        IN  IF Len(p) = 2 /\ IsFloatText(p[2])
            THEN result.kind = "ok" /\ result.amount = FloatOfText(p[2])
            ELSE result.kind = "ParseError"

\* C8 (as claimed): get_number answered ACCESS_NUMBER:<id>:<phone> gives that
\* id and phone; every other answer, without the prefix or with fewer than
\* two fields after it, fails with ParseError and nothing else.
C8_NumberParsesOrParseError ==
    (op = "get_number" /\ Answered(1)) =>
        LET f == Split(calls[1].resp.text, ":")
        IN  IF StartsWith(calls[1].resp.text, ACCESS_NUMBER) /\ Len(f) >= 3
            THEN /\ result.kind = "ok"
                 /\ result.activation_id = f[2]
                 /\ result.phone_number = f[3]
            ELSE result.kind = "ParseError"

(***************************************************************************)
(* Pricing properties.                                                     *)
(***************************************************************************)
\* The top level the standard parser reads prices from: an object, or a
\* non-empty array whose first element is an object
ExpectedTopLevel(doc) ==
    IsDict(doc) \/ (IsList(doc) /\ doc.items # <<>> /\ IsDict(doc.items[1]))

\* C9 (as claimed): the standard get_prices, answered a body that is no JSON
\* text or whose top level is neither an object nor a non-empty array with an
\* object in front, fails with ParseError carrying the body; it returns no
\* list, empty or not.
C9_StdPricesMismatchIsParseError ==
    (/\ op = "get_prices"
     /\ client.class \notin {"HeroSMSClient", "SMSBowerClient"}
     /\ Answered(1)
     /\ ~ExpectedTopLevel(calls[1].resp.json)) =>
        /\ result.kind = "ParseError"
        /\ result.text = calls[1].resp.text

PricingOps ==
    {"get_prices", "get_top_countries_by_service", "get_prices_v2", "get_prices_v3"}

\* a <= b and a == b of two floats; each is False with a NaN on either side
NumLeq(a, b) == ~IsNaN(a) /\ ~IsNaN(b) /\ a.m * Pow10(b.e) <= b.m * Pow10(a.e)
NumEq(a, b) == ~IsNaN(a) /\ ~IsNaN(b) /\ a = b

\* min_price <= c <= max_price for every c in cost, and
\* min_price == max_price == cost for a scalar cost
WithinBounds(p) ==
    /\ \A k \in 1..Len(p.cost.values) :
          NumLeq(p.min_price, p.cost.values[k]) /\ NumLeq(p.cost.values[k], p.max_price)
    /\ ~p.cost.isList =>
          NumEq(p.min_price, p.max_price) /\ NumEq(p.max_price, p.cost.values[1])

\* C10 (as claimed): every ServicePrice a pricing operation returns, on any
\* client, has min_price <= c <= max_price for every value c of its cost, and
\* min_price == max_price == cost when the cost is a single value.
C10_PricesWithinMinMax ==
    (op \in PricingOps /\ result.kind = "ok") =>
        \A i \in 1..Len(result.list) :
            \A j \in 1..Len(result.list[i].services) :
                WithinBounds(result.list[i].services[j])

\* The operations whose list-valued cost comes from price-text keys: the
\* freePriceMap keys of the standard and top-countries parsers, the price keys
\* of the v2 parser (get_prices delegates to one of the three)
KeyPricedOps == {"get_prices", "get_top_countries_by_service", "get_prices_v2"}

StrictlyAscending(xs) == \A k \in 1..(Len(xs) - 1) : NumLess(xs[k], xs[k + 1])

\* C11 (as claimed): a cost list derived from price-text keys is strictly
\* ascending, each distinct parsed price once, also when two key texts parse
\* to the same price.
C11_KeyPriceListStrictlyAscending ==
    (op \in KeyPricedOps /\ result.kind = "ok") =>
        \A i \in 1..Len(result.list) :
            \A j \in 1..Len(result.list[i].services) :
                result.list[i].services[j].cost.isList =>
                    StrictlyAscending(result.list[i].services[j].cost.values)

(***************************************************************************)
(* The pivot of get_top_countries_by_service.                              *)
(***************************************************************************)
\* The entries of a top-countries payload, each with the service code it
\* stands under.  With a service requested the payload is a list of entries,
\* or an object: the entries under the service's own key when it has that
\* key, else an index -> entry mapping; every entry carries the requested
\* code.  With no service the payload is a list of serviceCode -> entries
\* objects, or one such object, each entries a list or an index-keyed mapping.
PayloadEntries(service, data) ==
    IF Truthy(service)
    THEN LET src == IF IsDict(data) /\ HasKey(data, service.v)
                    THEN Get(data, service.v) ELSE data
             items == IF IsList(src) \/ IsDict(src) THEN src.items ELSE <<>>
         IN  {[srv |-> service.v, entry |-> items[i]] :
                i \in {n \in 1..Len(items) : IsDict(items[n])}}
    ELSE LET objects == IF IsList(data)
                        THEN {data.items[i] : i \in {n \in 1..Len(data.items) :
                                                        IsDict(data.items[n])}}
                        ELSE IF IsDict(data) THEN {data} ELSE {}
             groups == UNION {{o.items[i] : i \in 1..Len(o.items)} : o \in objects}
         IN  UNION {{[srv |-> g.k, entry |-> g.items[i]] : i \in 1..Len(g.items)} :
                    g \in {x \in groups : IsList(x) \/ IsDict(x)}}

\* The entries that have a country field, and the country id of one
WithCountryField(entries) ==
    {e \in entries : Get(e.entry, K.country).t \notin {"absent", "null"}}

CountryIdOf(e) == PyInt(Get(e.entry, K.country)).i

\* The service codes of a services map
ServiceCodes(services) == {services[j].service : j \in 1..Len(services)}

\* C12: get_top_countries_by_service returns one CountryPrices per distinct
\* country id of the payload's entries, none twice; the services of each are
\* exactly the service codes of the entries of that country, each once;
\* entries with no country field add nothing, and no CountryPrices has an
\* empty services map.
C12_TopCountriesPivot ==
    (op = "get_top_countries_by_service" /\ result.kind = "ok") =>
        LET es == WithCountryField(PayloadEntries(args.service, calls[1].resp.json))
        IN  /\ \A i, j \in 1..Len(result.list) :
                  result.list[i].country_id = result.list[j].country_id => i = j
            /\ {result.list[i].country_id : i \in 1..Len(result.list)}
                  = {CountryIdOf(e) : e \in es}
            /\ \A i \in 1..Len(result.list) :
                  /\ result.list[i].services # <<>>
                  /\ ServiceCodes(result.list[i].services)
                        = {e.srv : e \in {x \in es :
                                            CountryIdOf(x) = result.list[i].country_id}}
                  /\ Cardinality(ServiceCodes(result.list[i].services))
                        = Len(result.list[i].services)

\* Two entries of one country under two service codes, pivoted into one
\* CountryPrices holding both
C12_Witness ==
    /\ op = "get_top_countries_by_service"
    /\ result.kind = "ok"
    /\ Len(result.list) = 1
    /\ Len(result.list[1].services) = 2
    /\ Cardinality(WithCountryField(PayloadEntries(args.service, calls[1].resp.json))) = 2

(***************************************************************************)
(* The pricing overrides of HeroSMS and SMSBower.                          *)
(***************************************************************************)
\* What get_top_countries_by_service(service, free_price) and
\* get_prices_v2(service, country) do on the answer the vendor gave to the
\* first call of the operation that ran (HeroSMS get_prices has free_price
\* default to True)
DelegatedTopCountries ==
    get_top_countries_by_service(
        client, args.service,
        IF args.free_price = "omitted" THEN "True" ELSE args.free_price,
        <<calls[1].resp>>)

DelegatedPricesV2 == get_prices_v2(client, args.service, args.country, <<calls[1].resp>>)

\* C13: get_prices of a HeroSMS client issues the one call of
\* get_top_countries_by_service and never getPrices; it fails as that
\* operation fails, and else returns the elements of its result whose
\* country_id equals country, in order: all of them when country is omitted,
\* and country 0 filters.  get_prices of an SMSBower client issues the one
\* getPricesV2 call of get_prices_v2(service, country) and has its outcome.
C13_OverriddenPricesAreDelegated ==
    /\ (op = "get_prices" /\ client.class = "HeroSMSClient") =>
          /\ Len(calls) = 1
          /\ calls[1].action = "getTopCountriesByService"
          /\ calls = DelegatedTopCountries.calls
          /\ IF DelegatedTopCountries.result.kind # "ok"
             THEN result = DelegatedTopCountries.result
             ELSE /\ result.kind = "ok"
                  /\ result.list =
                        IF args.country.some
                        THEN SelectSeq(DelegatedTopCountries.result.list,
                                       LAMBDA r : r.country_id = args.country.v)
                        ELSE DelegatedTopCountries.result.list
    /\ (op = "get_prices" /\ client.class = "SMSBowerClient") =>
          /\ Len(calls) = 1
          /\ calls[1].action = "getPricesV2"
          /\ calls = DelegatedPricesV2.calls
          /\ result = DelegatedPricesV2.result

\* HeroSMS get_prices with country 0 on an answer holding country 0 and
\* another country: the filter keeps one of the two
C13_Witness ==
    /\ op = "get_prices"
    /\ client.class = "HeroSMSClient"
    /\ args.country = [some |-> TRUE, v |-> 0]
    /\ result.kind = "ok"
    /\ Len(result.list) = 1
    /\ Len(DelegatedTopCountries.result.list) = 2

(***************************************************************************)
(* The SMSBower v2 and v3 parsers.                                         *)
(***************************************************************************)
\* The operations that parse a v2 or a v3 document, and the version read
ComplexOps == {"get_prices_v2", "get_prices_v3"}

VersionRead == IF op = "get_prices_v3" THEN "v3" ELSE "v2"

\* The prices and the counts a service's price map gives rise to, one per
\* price text (v2) or per provider (v3), in the order of the map
DerivedPrices(version, srv) ==
    [i \in 1..Len(srv.items) |->
        IF version = "v2" THEN PyFloat(JStr(srv.items[i].k)).n
        ELSE PyFloat(GetOr0(srv.items[i], K.price)).n]

DerivedCounts(version, srv) ==
    [i \in 1..Len(srv.items) |->
        IF version = "v2" THEN PyInt(srv.items[i]).i
        ELSE PyInt(GetOr0(srv.items[i], K.count)).i]

RECURSIVE SumSeq(_)
SumSeq(ns) == IF ns = <<>> THEN 0 ELSE Head(ns) + SumSeq(Tail(ns))

Occurrences(xs, v) == Cardinality({i \in 1..Len(xs) : xs[i] = v})

\* xs holds the values of ys, each as often, and no value stands before a
\* smaller one
AscendingListOf(xs, ys) ==
    /\ Len(xs) = Len(ys)
    /\ \A i \in 1..Len(ys) : Occurrences(xs, ys[i]) = Occurrences(ys, ys[i])
    /\ \A k, l \in 1..Len(xs) : k < l => ~NumLess(xs[l], xs[k])

\* The ServicePrice p is the one the claim describes for the service code and
\* the derived prices ps and counts ns: min_price and max_price are derived
\* prices with none smaller and none larger
DescribesPair(p, code, ps, ns) ==
    /\ p.service = code
    /\ p.count = SumSeq(ns)
    /\ \E k \in 1..Len(ps) : p.min_price = ps[k]
    /\ \E k \in 1..Len(ps) : p.max_price = ps[k]
    /\ \A k \in 1..Len(ps) : ~NumLess(ps[k], p.min_price) /\ ~NumLess(p.max_price, ps[k])
    /\ IF Len(ps) = 1 THEN p.cost = ScalarCost(ps[1])
       ELSE p.cost.isList /\ AscendingListOf(p.cost.values, ps)

\* The services of a country with at least one derived price, and the
\* countries left with such a service, in the order of the document
PricedServices(country) == SelectSeq(country.items, LAMBDA srv : srv.items # <<>>)

PricedCountries(doc) == SelectSeq(doc.items, LAMBDA c : PricedServices(c) # <<>>)

\* The services map is the one the claim describes for the country
DescribesCountry(cp, country, version) ==
    /\ cp.country_id = PyInt(JStr(country.k)).i
    /\ Len(cp.services) = Len(PricedServices(country))
    /\ \A j \in 1..Len(cp.services) :
          DescribesPair(cp.services[j], PricedServices(country)[j].k,
                        DerivedPrices(version, PricedServices(country)[j]),
                        DerivedCounts(version, PricedServices(country)[j]))

\* C14 (as claimed): the v2 and v3 parsers return, for every country/service
\* pair with a derived price, count as the sum of the counts, min_price and
\* max_price as the smallest and largest derived price, cost as the one price
\* or else the full ascending list (duplicates kept); a pair with no derived
\* price is dropped, and so is a country left with no service.
C14_ComplexPricesAggregate ==
    (op \in ComplexOps /\ result.kind = "ok") =>
        /\ Len(result.list) = Len(PricedCountries(calls[1].resp.json))
        /\ \A i \in 1..Len(result.list) :
              DescribesCountry(result.list[i], PricedCountries(calls[1].resp.json)[i],
                               VersionRead)

(***************************************************************************)
(* Propagation of transport failures.                                      *)
(***************************************************************************)
\* The failure _request raises on the answer to the i-th call: the HTTP
\* failure of raise_for_status(), or the vendor error for a body with a token
FailureOf(i) ==
    IF calls[i].resp.http # "2xx" THEN Raise("TransportError", <<>>)
    ELSE Raise("VendorError", calls[i].resp.text)

\* C15: a transport call that fails with TransportError or VendorError is the
\* operation's last call, and the operation ends with that failure: nothing
\* is retried, no later call is issued (no setStatus after a failed
\* getExtraActivation, no getStatus after a failed setStatus(3)) and no value
\* is returned (no NumberActivation after a failed setStatus(1)).
C15_FailedCallEndsOperation ==
    \A i \in 1..Len(calls) :
        ~Answered(i) =>
            /\ i = Len(calls)
            /\ result = FailureOf(i)
            /\ \A j \in 1..(i - 1) : calls[j].action # calls[i].action

\* reactivation_number whose getExtraActivation succeeded and whose
\* setStatus(1) failed
C15_Witness ==
    /\ op = "reactivation_number"
    /\ Len(calls) = 2
    /\ Answered(1)
    /\ ~Answered(2)
    /\ calls[2].action = "setStatus"
    /\ result.kind \in {"TransportError", "VendorError"}

(***************************************************************************)
(* The query of get_number.                                                *)
(***************************************************************************)
ANY == <<"a","n","y">>

\* The operator parameter the claim describes, "given" standing for given:
\* the caller's operator with no country or country 73, "any" with any other
\* country, none when no operator is given
OperatorSent(given) ==
    IF ~given THEN None
    ELSE IF args.country.some /\ args.country.v # 73 THEN Some(ANY)
    ELSE args.operator

\* C16 (as claimed): get_number sends the caller's operator only when no
\* country is given or the country is 73, "any" when an operator is given
\* with any other country, 0 included, and no operator parameter when no
\* operator is given; the country parameter is sent exactly when a country is
\* given, 0 included.  An operator is given when the argument is not None.
C16_OperatorSentWhenGiven ==
    op = "get_number" =>
        /\ Len(calls) = 1
        /\ calls[1].action = "getNumber"
        /\ calls[1].params.operator = OperatorSent(args.operator.some)
        /\ calls[1].params.country = args.country

\* C16 (amended): the same with "given" read as the code reads it, an
\* operator that is neither None nor the empty text; with an empty operator
\* no operator parameter is sent, whatever the country.
C16_OperatorSentWhenNonEmpty ==
    op = "get_number" =>
        /\ Len(calls) = 1
        /\ calls[1].action = "getNumber"
        /\ calls[1].params.operator = OperatorSent(Truthy(args.operator))
        /\ calls[1].params.country = args.country
        /\ calls[1].params.service = Some(args.service)

\* An operator given with country 0: "any" and country 0 are sent
C16_Witness ==
    /\ op = "get_number"
    /\ Truthy(args.operator)
    /\ args.country = [some |-> TRUE, v |-> 0]
    /\ calls[1].params.operator = Some(ANY)
    /\ calls[1].params.country = [some |-> TRUE, v |-> 0]

====
